---- MODULE Spec2Model ----
(***************************************************************************)
(* A model of the subsonic media provider of supersonic:                   *)
(*   - SetRating: the batched, concurrent per-track rating requests        *)
(*   - GetGenres / GetPlaylists: the 60 second cache of two collections    *)
(*   - AlbumFilter.IsNil / AlbumFilter.Matches                             *)
(*   - fillAlbum / normalizeReleaseTypes: the release-type mask            *)
(*   - CanStreamWithOffset                                                 *)
(* Each part has its own specification over the shared variables; the      *)
(* variables of the other parts keep their initial values.                 *)
(***************************************************************************)
EXTENDS Integers, Sequences, FiniteSets, TLC

VARIABLES
    \* ---- SetRating (one call at a time; its goroutines interleave)
    pc,           \* position of the calling goroutine in SetRating
    nTracks,      \* len(params.TrackIDs) of the running call
    i,            \* the batch loop's i (line 317)
    j,            \* batchSetRating's loop i (line 304)
    wg,           \* the counter of the batch's sync.WaitGroup
    g,            \* per track index: position of its goroutine
    newErr,       \* per track index: the newErr its request returned (a local of
                  \* the goroutine: nil again once the goroutine has ended)
    err,          \* the captured variable err (line 302)
    retVal,       \* what SetRating returned
    attempts,     \* history: per track index, how many requests were issued
    batches,      \* history: how many times wg.Wait() returned
    anyFailed,    \* history: some request of the call returned an error
    captured,     \* history: the first error stored in err during the call
    \* ---- GetGenres / GetPlaylists
    now,                \* time.Now().Unix()
    ticks,              \* how many times the clock has advanced
    genresCached,       \* s.genresCached
    genresCachedAt,     \* s.genresCachedAt
    playlistsCached,    \* s.playlistsCached
    playlistsCachedAt,  \* s.playlistsCachedAt
    cpc,                \* per caller: its position in GetGenres / GetPlaylists
    fetched,            \* per caller: the response g / pl of its fetch
    res,                \* per caller: what its last call saw, did and returned
    valWriter,          \* history, per collection: the caller whose store wrote the value
    torn,               \* history, per collection: the cached value and the cached
                        \* timestamp were not written by the same fetch
    \* ---- the functions without state of their own
    call                \* the last call: its function, its arguments and its result

ratingVars == <<pc, nTracks, i, j, wg, g, newErr, err, retVal,
                attempts, batches, anyFailed, captured>>

cacheVars == <<now, ticks, genresCached, genresCachedAt, playlistsCached,
               playlistsCachedAt, cpc, fetched, res, valWriter, torn>>

pureVars == <<call>>

vars == <<ratingVars, cacheVars, pureVars>>

(***************************************************************************)
(* SetRating                                                               *)
(***************************************************************************)

\* the largest len(params.TrackIDs) explored
MaxTracks == 11

batchSize == 5

TrackIdx == 0 .. (MaxTracks - 1)

\* the nil error, and the error the request for TrackIDs[idx] returns when it fails
NoErr == [error |-> "nil", of |-> -1]
ErrOf(idx) == [error |-> "set rating failed", of |-> idx]

\* (a variant that rounds down)
NumBatchesFloor(n) == n \div batchSize
\* math.Ceil(float64(n) / float64(batchSize)), exact for the small n explored
numBatches(n) == IF n % batchSize = 0 THEN n \div batchSize ELSE (n \div batchSize) + 1

\* (a variant without the bound of the batch)
BatchLoopCondUnbounded(k, offs, n) == offs + k < n
\* the loop condition of batchSetRating (line 304)
BatchLoopCond(k, offs, n) == k < batchSize /\ offs + k < n

\* (a variant that does not wait)
WaitNeverBlocks(counter) == TRUE
\* wg.Wait() returns when the counter is zero (line 320)
WaitReturns(counter) == counter = 0

RatingInit ==
    /\ pc = "idle"
    /\ nTracks = 0
    /\ i = 0
    /\ j = 0
    /\ wg = 0
    /\ g = [idx \in TrackIdx |-> "none"]
    /\ newErr = [idx \in TrackIdx |-> NoErr]
    /\ err = NoErr
    /\ retVal = NoErr
    /\ attempts = [idx \in TrackIdx |-> 0]
    /\ batches = 0
    /\ anyFailed = FALSE
    /\ captured = NoErr

\* SetRating is called with n track IDs: lines 297-316
SetRatingCall(n) ==
    /\ pc \in {"idle", "done"}
    /\ pc' = "for"
    /\ nTracks' = n
    /\ i' = 0
    /\ j' = 0
    /\ wg' = 0
    /\ g' = [idx \in TrackIdx |-> "none"]
    /\ newErr' = [idx \in TrackIdx |-> NoErr]
    /\ err' = NoErr
    /\ retVal' = NoErr
    /\ attempts' = [idx \in TrackIdx |-> 0]
    /\ batches' = 0
    /\ anyFailed' = FALSE
    /\ captured' = NoErr
    /\ UNCHANGED <<cacheVars, pureVars>>

\* the test of the batch loop (line 317); a new WaitGroup per batch (line 318)
BatchLoop ==
    /\ pc = "for"
    /\ IF i < numBatches(nTracks)
         THEN pc' = "batch" /\ j' = 0 /\ wg' = 0
         ELSE pc' = "return" /\ UNCHANGED <<j, wg>>
    /\ UNCHANGED <<nTracks, i, g, newErr, err, retVal, attempts, batches,
                   anyFailed, captured>>
    /\ UNCHANGED <<cacheVars, pureVars>>

\* one iteration of batchSetRating(i*batchSize, &wg): wg.Add(1) and the go
\* statement (lines 304-312), or the end of its loop
Spawn ==
    /\ pc = "batch"
    /\ IF BatchLoopCond(j, i * batchSize, nTracks)
         THEN /\ wg' = wg + 1
              /\ g' = [g EXCEPT ![i * batchSize + j] = "spawned"]
              /\ j' = j + 1
              /\ pc' = pc
         ELSE /\ pc' = "wait"
              /\ UNCHANGED <<wg, g, j>>
    /\ UNCHANGED <<nTracks, i, newErr, err, retVal, attempts, batches,
                   anyFailed, captured>>
    /\ UNCHANGED <<cacheVars, pureVars>>

\* the goroutine of TrackIDs[idx] issues s.client.SetRating (line 307)
RequestStart(idx) ==
    /\ g[idx] = "spawned"
    /\ g' = [g EXCEPT ![idx] = "req"]
    /\ attempts' = [attempts EXCEPT ![idx] = @ + 1]
    /\ UNCHANGED <<pc, nTracks, i, j, wg, newErr, err, retVal, batches,
                   anyFailed, captured>>
    /\ UNCHANGED <<cacheVars, pureVars>>

\* the request returns, with an error or without (line 307)
RequestReturn(idx) ==
    /\ g[idx] = "req"
    /\ \E e \in {NoErr, ErrOf(idx)} :
         /\ newErr' = [newErr EXCEPT ![idx] = e]
         /\ anyFailed' = (anyFailed \/ e # NoErr)
    /\ g' = [g EXCEPT ![idx] = "got"]
    /\ UNCHANGED <<pc, nTracks, i, j, wg, err, retVal, attempts, batches,
                   captured>>
    /\ UNCHANGED <<cacheVars, pureVars>>

\* the goroutine reads err and evaluates err == nil && newErr != nil (line 308);
\* when false, it goes on to wg.Done() (line 311)
CheckErr(idx) ==
    /\ g[idx] = "got"
    /\ IF err = NoErr /\ newErr[idx] # NoErr
         THEN /\ g' = [g EXCEPT ![idx] = "write"]
              /\ UNCHANGED <<wg, newErr>>
         ELSE /\ g' = [g EXCEPT ![idx] = "done"]
              /\ wg' = wg - 1
              /\ newErr' = [newErr EXCEPT ![idx] = NoErr]
    /\ UNCHANGED <<pc, nTracks, i, j, err, retVal, attempts, batches,
                   anyFailed, captured>>
    /\ UNCHANGED <<cacheVars, pureVars>>

\* err = newErr (line 309), an unsynchronised write, then wg.Done() (line 311)
WriteErr(idx) ==
    /\ g[idx] = "write"
    /\ err' = newErr[idx]
    /\ captured' = IF captured = NoErr THEN newErr[idx] ELSE captured
    /\ g' = [g EXCEPT ![idx] = "done"]
    /\ wg' = wg - 1
    /\ newErr' = [newErr EXCEPT ![idx] = NoErr]
    /\ UNCHANGED <<pc, nTracks, i, j, retVal, attempts, batches,
                   anyFailed>>
    /\ UNCHANGED <<cacheVars, pureVars>>

\* wg.Wait() returns and the batch loop increments i (lines 320, 317)
Wait ==
    /\ pc = "wait"
    /\ WaitReturns(wg)
    /\ batches' = batches + 1
    /\ i' = i + 1
    /\ pc' = "for"
    /\ UNCHANGED <<nTracks, j, wg, g, newErr, err, retVal, attempts,
                   anyFailed, captured>>
    /\ UNCHANGED <<cacheVars, pureVars>>

\* return err (line 323)
Return ==
    /\ pc = "return"
    /\ retVal' = err
    /\ pc' = "done"
    /\ UNCHANGED <<nTracks, i, j, wg, g, newErr, err, attempts, batches,
                   anyFailed, captured>>
    /\ UNCHANGED <<cacheVars, pureVars>>

RatingNext ==
    \/ \E n \in 0 .. MaxTracks : SetRatingCall(n)
    \/ BatchLoop
    \/ Spawn
    \/ \E idx \in TrackIdx : RequestStart(idx)
    \/ \E idx \in TrackIdx : RequestReturn(idx)
    \/ \E idx \in TrackIdx : CheckErr(idx)
    \/ \E idx \in TrackIdx : WriteErr(idx)
    \/ Wait
    \/ Return


\* a nil slice or nil pointer (a slice that is not nil is [isNil |-> FALSE,
\* items |-> its elements]), and the error of the transport
Nil == [isNil |-> TRUE]
TransportErr == [error |-> "transport error", of |-> -1]

(***************************************************************************)
(* Strings, as sequences of characters                                     *)
(***************************************************************************)

Uppers == <<"A", "B", "C", "D", "E", "F", "G", "H", "I", "J", "K", "L", "M", "N", "O", "P", "Q", "R", "S", "T", "U", "V", "W", "X", "Y", "Z">>
Lowers == <<"a", "b", "c", "d", "e", "f", "g", "h", "i", "j", "k", "l", "m", "n", "o", "p", "q", "r", "s", "t", "u", "v", "w", "x", "y", "z">>

\* the lower case of one character
ToLowerChar(ch) ==
    IF \E n \in DOMAIN Uppers : Uppers[n] = ch
      THEN Lowers[CHOOSE n \in DOMAIN Uppers : Uppers[n] = ch]
      ELSE ch

\* strings.ToLower
ToLower(str) == [n \in DOMAIN str |-> ToLowerChar(str[n])]

\* strings.ReplaceAll(str, " ", "")
IsNotSpace(ch) == ch # " "
RemoveSpaces(str) == SelectSeq(str, IsNotSpace)

\* strings.EqualFold, for the letters above
EqualFold(s1, s2) == ToLower(s1) = ToLower(s2)

(***************************************************************************)
(* AlbumFilter                                                             *)
(***************************************************************************)

\* genresMatch (mediaprovider.go, lines 176-185)
genresMatch(filterGenres, albumGenres) ==
    \E m \in DOMAIN filterGenres : \E n \in DOMAIN albumGenres :
        EqualFold(filterGenres[m], albumGenres[n])

\* AlbumFilter.IsNil (lines 19-23)
IsNil(a) ==
    /\ a.MinYear = 0 /\ a.MaxYear = 0
    /\ Len(a.Genres) = 0
    /\ ~a.ExcludeFavorited /\ ~a.ExcludeUnfavorited

\* AlbumFilter.Matches (lines 25-42)
Matches(f, album) ==
    IF album = Nil THEN FALSE
    ELSE IF f.ExcludeFavorited /\ album.Favorite THEN FALSE
    ELSE IF f.ExcludeUnfavorited /\ ~album.Favorite THEN FALSE
    ELSE IF album.Year < f.MinYear \/ (f.MaxYear > 0 /\ album.Year > f.MaxYear) THEN FALSE
    ELSE IF Len(f.Genres) = 0 THEN TRUE
    ELSE genresMatch(f.Genres, album.Genres)

GenreLists ==
    { <<>>,
      <<<<"R", "o", "c", "k">>>>,
      <<<<"j", "a", "z", "z">>, <<"R", "O", "C", "K">>>> }

\* the filters and albums Matches is called with
Filters ==
    [MinYear : {0, 1990}, MaxYear : {0, 2000}, Genres : GenreLists,
     ExcludeFavorited : BOOLEAN, ExcludeUnfavorited : BOOLEAN]

AlbumYears == {-1, 0, 1989, 1990, 2000, 2001}

Albums ==
    [isNil : {FALSE}, Year : AlbumYears, Favorite : BOOLEAN, Genres : GenreLists]

\* a call of filter.IsNil() and filter.Matches(album)
MatchesCall ==
    /\ call.fn = "none"
    /\ \E f \in Filters : \E album \in Albums \cup {Nil} :
          call' = [fn |-> "Matches", filter |-> f, album |-> album,
                   isNil |-> IsNil(f), ret |-> Matches(f, album)]
    /\ UNCHANGED <<ratingVars, cacheVars>>

(***************************************************************************)
(* fillAlbum and normalizeReleaseTypes                                     *)
(***************************************************************************)

\* the bits of mediaprovider.ReleaseTypes
ReleaseTypeAlbum == 1
ReleaseTypeAudiobook == 2
ReleaseTypeAudioDrama == 4
ReleaseTypeBroadcast == 8
ReleaseTypeCompilation == 16
ReleaseTypeDemo == 32
ReleaseTypeDJMix == 64
ReleaseTypeEP == 128
ReleaseTypeFieldRecording == 256
ReleaseTypeInterview == 512
ReleaseTypeLive == 1024
ReleaseTypeMixtape == 2048
ReleaseTypeRemix == 4096
ReleaseTypeSingle == 8192
ReleaseTypeSoundtrack == 16384
ReleaseTypeSpokenWord == 32768

\* the longest list of release type labels explored
MaxLabels == 2

\* a | b on masks
RECURSIVE BitOr(_, _)
BitOr(a, b) ==
    IF a = 0 THEN b
    ELSE IF b = 0 THEN a
    ELSE (IF a % 2 = 1 \/ b % 2 = 1 THEN 1 ELSE 0) + 2 * BitOr(a \div 2, b \div 2)

\* the switch of normalizeReleaseTypes (lines 448-481): the bit of one label
\* already lower-cased and without spaces, 0 for a label it does not know
TypeBit(t) ==
    CASE t = <<"a", "l", "b", "u", "m">> -> ReleaseTypeAlbum
      [] t = <<"a", "u", "d", "i", "o", "b", "o", "o", "k">> -> ReleaseTypeAudiobook
      [] t = <<"a", "u", "d", "i", "o", "d", "r", "a", "m", "a">> -> ReleaseTypeAudioDrama
      [] t = <<"b", "r", "o", "a", "d", "c", "a", "s", "t">> -> ReleaseTypeBroadcast
      [] t = <<"c", "o", "m", "p", "i", "l", "a", "t", "i", "o", "n">> -> ReleaseTypeCompilation
      [] t = <<"d", "e", "m", "o">> -> ReleaseTypeDemo
      [] t = <<"d", "j", "m", "i", "x">> -> ReleaseTypeDJMix
      [] t = <<"e", "p">> -> ReleaseTypeEP
      [] t = <<"f", "i", "e", "l", "d", "r", "e", "c", "o", "r", "d", "i", "n", "g">> -> ReleaseTypeFieldRecording
      [] t = <<"i", "n", "t", "e", "r", "v", "i", "e", "w">> -> ReleaseTypeInterview
      [] t = <<"l", "i", "v", "e">> -> ReleaseTypeLive
      [] t = <<"m", "i", "x", "t", "a", "p", "e">> -> ReleaseTypeMixtape
      [] t = <<"r", "e", "m", "i", "x">> -> ReleaseTypeRemix
      [] t = <<"s", "i", "n", "g", "l", "e">> -> ReleaseTypeSingle
      [] t = <<"s", "o", "u", "n", "d", "t", "r", "a", "c", "k">> -> ReleaseTypeSoundtrack
      [] t = <<"s", "p", "o", "k", "e", "n", "w", "o", "r", "d">> -> ReleaseTypeSpokenWord
      [] OTHER -> 0

\* the loop of normalizeReleaseTypes (lines 446-482)
RECURSIVE FoldReleaseTypes(_, _)
FoldReleaseTypes(releaseTypes, mpReleaseTypes) ==
    IF releaseTypes = <<>> THEN mpReleaseTypes
    ELSE FoldReleaseTypes(Tail(releaseTypes),
             BitOr(mpReleaseTypes, TypeBit(ToLower(RemoveSpaces(Head(releaseTypes))))))

\* (a variant without the default of lines 483-485)
normalizeReleaseTypesNoDefault(releaseTypes) == FoldReleaseTypes(releaseTypes, 0)
\* normalizeReleaseTypes (lines 445-487)
normalizeReleaseTypes(releaseTypes) ==
    LET mpReleaseTypes == FoldReleaseTypes(releaseTypes, 0)
    IN  IF mpReleaseTypes = 0 THEN ReleaseTypeAlbum ELSE mpReleaseTypes

\* fillAlbum, the release types of the album (lines 439-442)
fillAlbum(subAlbum) ==
    LET types == normalizeReleaseTypes(subAlbum.ReleaseTypes)
    IN  [ReleaseTypes |-> IF subAlbum.IsCompilation
                            THEN BitOr(types, ReleaseTypeCompilation)
                            ELSE types]

\* the release type labels a server sends
Labels ==
    { <<"A", "l", "b", "u", "m">>,
      <<"A", "u", "d", "i", "o", "b", "o", "o", "k">>,
      <<"A", "u", "d", "i", "o", " ", "D", "r", "a", "m", "a">>,
      <<"b", "r", "o", "a", "d", "c", "a", "s", "t">>,
      <<"C", "o", "m", "p", "i", "l", "a", "t", "i", "o", "n">>,
      <<"d", "e", "m", "o">>,
      <<"D", "J", " ", "M", "i", "x">>,
      <<"E", "P">>,
      <<"F", "i", "e", "l", "d", " ", "R", "e", "c", "o", "r", "d", "i", "n", "g">>,
      <<"i", "n", "t", "e", "r", "v", "i", "e", "w">>,
      <<"L", "i", "v", "e">>,
      <<"L", "I", "V", "E">>,
      <<" ", "l", "i", "v", "e">>,
      <<"M", "i", "x", "t", "a", "p", "e">>,
      <<"r", "e", "m", "i", "x">>,
      <<"S", "i", "n", "g", "l", "e">>,
      <<"S", "o", "u", "n", "d", "t", "r", "a", "c", "k">>,
      <<"S", "p", "o", "k", "e", "n", " ", "W", "o", "r", "d">>,
      <<"B", "o", "o", "t", "l", "e", "g">>,
      <<>> }

LabelLists == UNION { [1 .. n -> Labels] : n \in 0 .. MaxLabels }

\* a call of fillAlbum(subAlbum, album)
FillAlbumCall ==
    /\ call.fn = "none"
    /\ \E types \in LabelLists : \E comp \in BOOLEAN :
          LET subAlbum == [ReleaseTypes |-> types, IsCompilation |-> comp]
          IN  call' = [fn |-> "fillAlbum", subAlbum |-> subAlbum,
                       album |-> fillAlbum(subAlbum)]
    /\ UNCHANGED <<ratingVars, cacheVars>>

(***************************************************************************)
(* CanStreamWithOffset                                                     *)
(***************************************************************************)

\* subsonic.TranscodeOffset
TranscodeOffset == "transcodeOffset"

\* the longest extension list explored
MaxExtensions == 2

ExtensionNames == {TranscodeOffset, "songLyrics", "formPost"}

ExtensionLists ==
    UNION { [1 .. n -> [Name : ExtensionNames]] : n \in 0 .. MaxExtensions }

\* the loop of lines 341-346, from element k on
RECURSIVE HasTranscodeOffset(_, _)
HasTranscodeOffset(extensions, k) ==
    IF k > Len(extensions) THEN FALSE
    ELSE IF extensions[k].Name = TranscodeOffset THEN TRUE
    ELSE HasTranscodeOffset(extensions, k + 1)

\* (a variant that looks at the first extension only)
CanStreamFirstOnly(extensions, queryErr) ==
    IF queryErr # NoErr THEN FALSE
    ELSE Len(extensions) > 0 /\ extensions[1].Name = TranscodeOffset
\* CanStreamWithOffset (lines 335-347), given what
\* s.client.GetOpenSubsonicExtensions() returned
CanStreamWithOffset(extensions, queryErr) ==
    IF queryErr # NoErr THEN FALSE
    ELSE HasTranscodeOffset(extensions, 1)

\* a call of CanStreamWithOffset()
CanStreamWithOffsetCall ==
    /\ call.fn = "none"
    /\ \E extensions \in ExtensionLists : \E queryErr \in {NoErr, TransportErr} :
          call' = [fn |-> "CanStreamWithOffset", extensions |-> extensions,
                   queryErr |-> queryErr,
                   ret |-> CanStreamWithOffset(extensions, queryErr)]
    /\ UNCHANGED <<ratingVars, cacheVars>>

\* the caller has used the result; the next call can be made
CallDone ==
    /\ call.fn # "none"
    /\ call' = [fn |-> "none"]
    /\ UNCHANGED <<ratingVars, cacheVars>>

PureNext ==
    \/ MatchesCall
    \/ FillAlbumCall
    \/ CanStreamWithOffsetCall
    \/ CallDone

(***************************************************************************)
(* GetGenres and GetPlaylists                                              *)
(***************************************************************************)

cacheValidDurationSeconds == 60

\* the clock when the provider is constructed (a unix time, far above the
\* cache's validity), and how often the clock advances in a behaviour
StartTime == 1000
MaxTicks == 4

\* the clock advances by a second, or to just before the cache's validity ends
TickSteps == {1, cacheValidDurationSeconds - 1}

\* the callers of the provider
Callers == {1, 2}

\* what s.client.GetGenres() can return without error
GenreResponses ==
    { Nil,
      [isNil |-> FALSE,
       items |-> <<[Name |-> "rock", AlbumCount |-> 2, SongCount |-> 9]>>],
      [isNil |-> FALSE,
       items |-> <<[Name |-> "rock", AlbumCount |-> 3, SongCount |-> 9],
                   [Name |-> "jazz", AlbumCount |-> 1, SongCount |-> 4]>>] }

\* what s.client.GetPlaylists() can return without error
PlaylistResponses ==
    { Nil,
      [isNil |-> FALSE,
       items |-> <<[Name |-> "mix", ID |-> "p1", CoverArt |-> "c1", Comment |-> "",
                    Owner |-> "u", Public |-> FALSE, SongCount |-> 3,
                    Duration |-> 600]>>],
      [isNil |-> FALSE,
       items |-> <<[Name |-> "mix", ID |-> "p1", CoverArt |-> "c1", Comment |-> "new",
                    Owner |-> "u", Public |-> TRUE, SongCount |-> 4, Duration |-> 800],
                   Nil>>] }

\* the conversion of GetGenres (lines 183-189)
toGenre(sg) ==
    [Name |-> sg.Name, AlbumCount |-> sg.AlbumCount, TrackCount |-> sg.SongCount]

\* toPlaylist and fillPlaylist (lines 502-520)
toPlaylist(pl) ==
    IF pl = Nil THEN Nil
    ELSE [Name |-> pl.Name, ID |-> pl.ID, CoverArtID |-> pl.CoverArt,
          Description |-> pl.Comment, Owner |-> pl.Owner, Public |-> pl.Public,
          TrackCount |-> pl.SongCount, Duration |-> pl.Duration]

\* the function handed to MapSlice, applied to one element
Convert(conv, x) == IF conv = "toGenre" THEN toGenre(x) ELSE toPlaylist(x)

\* sharedutil.MapSlice(ts, conv): a nil slice maps to a nil slice
MapSlice(ts, conv) ==
    IF ts = Nil THEN Nil
    ELSE [isNil |-> FALSE,
          items |-> [n \in DOMAIN ts.items |-> Convert(conv, ts.items[n])]]

\* (a variant that still holds the cache valid at exactly 60 seconds)
CacheValidInclusive(cachedVal, cachedAt, t) ==
    cachedVal # Nil /\ t - cachedAt <= cacheValidDurationSeconds
\* the test of lines 175 and 207
CacheValid(cachedVal, cachedAt, t) ==
    cachedVal # Nil /\ t - cachedAt < cacheValidDurationSeconds

\* (a variant that falls back to the stale collection)
StaleOnError(cachedVal) == cachedVal
\* the collection returned when the fetch fails (lines 181 and 213)
ReturnedOnError(cachedVal) == Nil

NoCall ==
    [op |-> "none", checkAt |-> 0, beforeVal |-> Nil, beforeAt |-> 0, sawTorn |-> FALSE,
     fetches |-> 0, outcome |-> "none", ret |-> Nil, err |-> NoErr, doneAt |-> 0]

CacheInit ==
    /\ now = StartTime
    /\ ticks = 0
    /\ genresCached = Nil
    /\ genresCachedAt = 0
    /\ playlistsCached = Nil
    /\ playlistsCachedAt = 0
    /\ cpc = [c \in Callers |-> "idle"]
    /\ fetched = [c \in Callers |-> Nil]
    /\ res = [c \in Callers |-> NoCall]
    /\ valWriter = [k \in {"genres", "playlists"} |-> 0]
    /\ torn = [k \in {"genres", "playlists"} |-> FALSE]

Tick ==
    /\ ticks < MaxTicks
    /\ \E d \in TickSteps : now' = now + d
    /\ ticks' = ticks + 1
    /\ UNCHANGED <<genresCached, genresCachedAt, playlistsCached, playlistsCachedAt,
                   cpc, fetched, res, valWriter, torn>>
    /\ UNCHANGED <<ratingVars, pureVars>>

\* the record of a call that reads the cache at line 175 / 207
Checked(k, cachedVal, cachedAt) ==
    LET hit == CacheValid(cachedVal, cachedAt, now)
    IN  [op |-> k, checkAt |-> now, beforeVal |-> cachedVal, beforeAt |-> cachedAt,
         sawTorn |-> torn[k],
         fetches |-> IF hit THEN 0 ELSE 1,
         outcome |-> IF hit THEN "hit" ELSE "pending",
         ret |-> IF hit THEN cachedVal ELSE Nil,
         err |-> NoErr,
         doneAt |-> IF hit THEN now ELSE 0]

\* GetGenres, lines 175-179: return the cached genres, or issue the fetch
GetGenresCheck(c) ==
    /\ cpc[c] = "idle"
    /\ res' = [res EXCEPT ![c] = Checked("genres", genresCached, genresCachedAt)]
    /\ cpc' = [cpc EXCEPT ![c] =
                 IF CacheValid(genresCached, genresCachedAt, now) THEN "idle" ELSE "gFetch"]
    /\ UNCHANGED <<now, ticks, genresCached, genresCachedAt, playlistsCached,
                   playlistsCachedAt, fetched, valWriter, torn>>
    /\ UNCHANGED <<ratingVars, pureVars>>

\* lines 179-182: s.client.GetGenres() returns, with an error or with genres
GetGenresFetched(c) ==
    /\ cpc[c] = "gFetch"
    /\ \/ /\ res' = [res EXCEPT ![c].outcome = "fail",
                                ![c].ret = ReturnedOnError(genresCached),
                                ![c].err = TransportErr,
                                ![c].doneAt = now]
          /\ cpc' = [cpc EXCEPT ![c] = "idle"]
          /\ UNCHANGED fetched
       \/ \E r \in GenreResponses :
             /\ fetched' = [fetched EXCEPT ![c] = r]
             /\ cpc' = [cpc EXCEPT ![c] = "gStoreVal"]
             /\ UNCHANGED res
    /\ UNCHANGED <<now, ticks, genresCached, genresCachedAt, playlistsCached,
                   playlistsCachedAt, valWriter, torn>>
    /\ UNCHANGED <<ratingVars, pureVars>>

\* lines 183-189: s.genresCached = MapSlice(g, ...)
GetGenresStoreVal(c) ==
    /\ cpc[c] = "gStoreVal"
    /\ genresCached' = MapSlice(fetched[c], "toGenre")
    /\ valWriter' = [valWriter EXCEPT !["genres"] = c]
    /\ torn' = [torn EXCEPT !["genres"] = TRUE]
    /\ cpc' = [cpc EXCEPT ![c] = "gStoreAt"]
    /\ UNCHANGED <<now, ticks, genresCachedAt, playlistsCached, playlistsCachedAt,
                   fetched, res>>
    /\ UNCHANGED <<ratingVars, pureVars>>

\* lines 190-191: s.genresCachedAt = time.Now().Unix(); return s.genresCached, nil
GetGenresStoreAt(c) ==
    /\ cpc[c] = "gStoreAt"
    /\ genresCachedAt' = now
    /\ torn' = [torn EXCEPT !["genres"] = (valWriter["genres"] # c)]
    /\ res' = [res EXCEPT ![c].outcome = "ok", ![c].ret = genresCached,
                          ![c].doneAt = now]
    /\ fetched' = [fetched EXCEPT ![c] = Nil]
    /\ cpc' = [cpc EXCEPT ![c] = "idle"]
    /\ UNCHANGED <<now, ticks, genresCached, playlistsCached, playlistsCachedAt,
                   valWriter>>
    /\ UNCHANGED <<ratingVars, pureVars>>

\* GetPlaylists, lines 207-211: return the cached playlists, or issue the fetch
GetPlaylistsCheck(c) ==
    /\ cpc[c] = "idle"
    /\ res' = [res EXCEPT ![c] = Checked("playlists", playlistsCached, playlistsCachedAt)]
    /\ cpc' = [cpc EXCEPT ![c] =
                 IF CacheValid(playlistsCached, playlistsCachedAt, now)
                   THEN "idle" ELSE "pFetch"]
    /\ UNCHANGED <<now, ticks, genresCached, genresCachedAt, playlistsCached,
                   playlistsCachedAt, fetched, valWriter, torn>>
    /\ UNCHANGED <<ratingVars, pureVars>>

\* lines 211-214: s.client.GetPlaylists() returns, with an error or with playlists
GetPlaylistsFetched(c) ==
    /\ cpc[c] = "pFetch"
    /\ \/ /\ res' = [res EXCEPT ![c].outcome = "fail",
                                ![c].ret = ReturnedOnError(playlistsCached),
                                ![c].err = TransportErr,
                                ![c].doneAt = now]
          /\ cpc' = [cpc EXCEPT ![c] = "idle"]
          /\ UNCHANGED fetched
       \/ \E r \in PlaylistResponses :
             /\ fetched' = [fetched EXCEPT ![c] = r]
             /\ cpc' = [cpc EXCEPT ![c] = "pStoreVal"]
             /\ UNCHANGED res
    /\ UNCHANGED <<now, ticks, genresCached, genresCachedAt, playlistsCached,
                   playlistsCachedAt, valWriter, torn>>
    /\ UNCHANGED <<ratingVars, pureVars>>

\* line 215: s.playlistsCached = MapSlice(pl, toPlaylist)
GetPlaylistsStoreVal(c) ==
    /\ cpc[c] = "pStoreVal"
    /\ playlistsCached' = MapSlice(fetched[c], "toPlaylist")
    /\ valWriter' = [valWriter EXCEPT !["playlists"] = c]
    /\ torn' = [torn EXCEPT !["playlists"] = TRUE]
    /\ cpc' = [cpc EXCEPT ![c] = "pStoreAt"]
    /\ UNCHANGED <<now, ticks, genresCached, genresCachedAt, playlistsCachedAt,
                   fetched, res>>
    /\ UNCHANGED <<ratingVars, pureVars>>

\* lines 216-217: s.playlistsCachedAt = time.Now().Unix(); return s.playlistsCached, nil
GetPlaylistsStoreAt(c) ==
    /\ cpc[c] = "pStoreAt"
    /\ playlistsCachedAt' = now
    /\ torn' = [torn EXCEPT !["playlists"] = (valWriter["playlists"] # c)]
    /\ res' = [res EXCEPT ![c].outcome = "ok", ![c].ret = playlistsCached,
                          ![c].doneAt = now]
    /\ fetched' = [fetched EXCEPT ![c] = Nil]
    /\ cpc' = [cpc EXCEPT ![c] = "idle"]
    /\ UNCHANGED <<now, ticks, genresCached, genresCachedAt, playlistsCached,
                   valWriter>>
    /\ UNCHANGED <<ratingVars, pureVars>>

\* the steps of caller c
CallerNext(c) ==
    \/ GetGenresCheck(c)
    \/ GetGenresFetched(c)
    \/ GetGenresStoreVal(c)
    \/ GetGenresStoreAt(c)
    \/ GetPlaylistsCheck(c)
    \/ GetPlaylistsFetched(c)
    \/ GetPlaylistsStoreVal(c)
    \/ GetPlaylistsStoreAt(c)

\* one caller: the calls follow each other
CacheSeqNext ==
    \/ Tick
    \/ CallerNext(1)

\* concurrent callers, within one second of the clock: every caller finds the
\* cache empty or holding what a concurrent caller has just stored
CacheConcNext ==
    \E c \in Callers : CallerNext(c)

PureInit ==
    call = [fn |-> "none"]

\* the provider after SubsonicMediaProvider(client), before any call
Init == RatingInit /\ CacheInit /\ PureInit

SpecRating == Init /\ [][RatingNext]_vars

SpecPure == Init /\ [][PureNext]_vars

SpecCacheSeq == Init /\ [][CacheSeqNext]_vars

SpecCacheConc == Init /\ [][CacheConcNext]_vars

(***************************************************************************)
(* Claims about SetRating, checked under SpecRating                        *)
(***************************************************************************)

\* requests issued and not yet returned
InFlight == {idx \in TrackIdx : g[idx] = "req"}

\* the request of TrackIDs[idx] has been issued / the unit has ended
Started(idx) == g[idx] \in {"req", "got", "write", "done"}
Ended(idx) == g[idx] = "done"

\* the least k with 5 * k >= n
CeilOfFifth(n) == CHOOSE k \in 0 .. n : 5 * k >= n /\ (k = 0 \/ 5 * (k - 1) < n)

\* C1: during a SetRating call, at most 5 per-track requests are in flight
\* (issued and not yet returned) in every reachable state.
C1_AtMostFiveInFlight == Cardinality(InFlight) <= 5

C1_Witness == pc = "wait" /\ Cardinality(InFlight) = 5

\* C2: the batch boundary is a barrier: whenever the request of an ID of batch
\* n+1 has been issued, every unit of batch n (IDs 5n..5n+4) has ended.
C2_BatchBarrier ==
    \A idx \in TrackIdx :
        (Started(idx) /\ idx >= 5) =>
            \A k \in TrackIdx :
                (k \div 5 = (idx \div 5) - 1) => Ended(k)

C2_Witness ==
    /\ nTracks >= 7
    /\ g[5] = "req"
    /\ g[6] = "got"
    /\ \A k \in 0 .. 4 : Ended(k)

\* C3: whatever requests fail, SetRating runs exactly ceil(N/5) batches, issues
\* the request exactly once for each of the N IDs (never more than once at any
\* time, and for no other index), and returns only after all N units ended.
C3_AllAttemptedOnce ==
    /\ \A idx \in TrackIdx : attempts[idx] <= 1
    /\ \A idx \in TrackIdx : idx >= nTracks => attempts[idx] = 0
    /\ pc \in {"return", "done"} =>
          /\ batches = CeilOfFifth(nTracks)
          /\ \A idx \in TrackIdx : idx < nTracks => (attempts[idx] = 1 /\ Ended(idx))

C3_Witness ==
    /\ pc = "done"
    /\ nTracks = 7
    /\ err = ErrOf(2)
    /\ retVal = ErrOf(2)
    /\ batches = 2
    /\ \A idx \in 0 .. 6 : attempts[idx] = 1

\* C4: SetRating returns nil iff no request failed, otherwise the error of the
\* first failed unit (the first to store its error in err), and an error once
\* stored in err is never replaced by a later failure.
C4_FirstErrorKept ==
    /\ err # NoErr => err = captured
    /\ pc = "done" =>
          /\ (retVal = NoErr) <=> ~anyFailed
          /\ anyFailed => retVal = captured

(***************************************************************************)
(* Claims about GetGenres and GetPlaylists                                 *)
(***************************************************************************)

\* the cached value and timestamp of collection k
CacheOf(k) ==
    IF k = "genres"
      THEN [val |-> genresCached, at |-> genresCachedAt]
      ELSE [val |-> playlistsCached, at |-> playlistsCachedAt]

\* caller c has made a call and it has returned
Returned(c) == cpc[c] = "idle" /\ res[c].op # "none"

\* C5 as stated: after a successful fetch at time t (a collection is cached, with
\* timestamp t), a call at a time below t+60 returns the cached collection
\* without a fetch, and a call at a time of at least t+60 performs exactly one
\* fetch and replaces the cached value and timestamp.
C5_TTL_AsStated ==
    LET r == res[1]
        cur == CacheOf(r.op)
    IN  (Returned(1) /\ r.beforeAt # 0 /\ r.beforeVal # Nil) =>
            IF r.checkAt < r.beforeAt + 60
              THEN r.fetches = 0 /\ r.ret = r.beforeVal /\ r.err = NoErr
              ELSE r.fetches = 1 /\ cur.val = r.ret /\ cur.at = r.doneAt

\* C5, amended: after a successful fetch at time t that cached a collection that
\* is not nil, a call at a time below t+60 returns the cached collection, performs
\* no fetch and leaves the cache as it is; a call at a time of at least t+60
\* performs exactly one fetch, which replaces the cached value and timestamp when
\* it succeeds and leaves both as they were when it fails.
C5_TTL ==
    LET r == res[1]
        cur == CacheOf(r.op)
    IN  (Returned(1) /\ r.beforeAt # 0 /\ r.beforeVal # Nil) =>
            IF r.checkAt < r.beforeAt + 60
              THEN /\ r.fetches = 0 /\ r.ret = r.beforeVal /\ r.err = NoErr
                   /\ cur.val = r.beforeVal /\ cur.at = r.beforeAt
              ELSE /\ r.fetches = 1
                   /\ r.outcome \in {"ok", "fail"}
                   /\ r.outcome = "ok" =>
                         cur.val = r.ret /\ cur.at = r.doneAt /\ r.err = NoErr
                   /\ r.outcome = "fail" =>
                         cur.val = r.beforeVal /\ cur.at = r.beforeAt

\* a call exactly 60 seconds after the fetch refetched and replaced the cache
C5_Witness ==
    /\ Returned(1)
    /\ res[1].beforeVal # Nil
    /\ res[1].checkAt = res[1].beforeAt + 60
    /\ res[1].outcome = "ok"
    /\ res[1].ret # res[1].beforeVal
    /\ CacheOf(res[1].op).at = res[1].doneAt

\* C6: when the fetch fails, the call returns the transport error and no
\* collection, and the cached value and timestamp are as they were before.
C6_FetchFailure ==
    LET r == res[1]
        cur == CacheOf(r.op)
    IN  (Returned(1) /\ r.outcome = "fail") =>
            /\ r.ret = Nil
            /\ r.err = TransportErr
            /\ cur.val = r.beforeVal
            /\ cur.at = r.beforeAt

\* a failed refetch over a cached collection that has expired
C6_Witness ==
    /\ Returned(1)
    /\ res[1].outcome = "fail"
    /\ res[1].beforeVal # Nil
    /\ res[1].checkAt >= res[1].beforeAt + 60

\* C7: no caller reads, at line 175 / 207, a cached value and a cached timestamp
\* that were not written by the same fetch.
C7_AtomicPair == \A c \in Callers : ~res[c].sawTorn

(***************************************************************************)
(* Claims about the filter, the release types and the stream offset        *)
(***************************************************************************)

\* C8: for the nil filter IsNil() is true and Matches is true for every album
\* that is not nil, whatever its year, favorite flag and genres.
C8_NilFilterMatchesAll ==
    (/\ call.fn = "Matches"
     /\ call.filter = [MinYear |-> 0, MaxYear |-> 0, Genres |-> <<>>,
                       ExcludeFavorited |-> FALSE, ExcludeUnfavorited |-> FALSE]
     /\ call.album # Nil)
        => (call.isNil /\ call.ret)

\* C9: the release type mask fillAlbum stores is never zero, and it is exactly
\* the album bit for an empty label list without the compilation flag.
C9_MaskNonZero ==
    call.fn = "fillAlbum" =>
        /\ call.album.ReleaseTypes # 0
        /\ (call.subAlbum.ReleaseTypes = <<>> /\ ~call.subAlbum.IsCompilation)
              => call.album.ReleaseTypes = 1

C9_Witness ==
    /\ call.fn = "fillAlbum"
    /\ call.subAlbum.ReleaseTypes = <<>>
    /\ ~call.subAlbum.IsCompilation
    /\ call.album.ReleaseTypes = ReleaseTypeAlbum

\* C11: the album default is applied only after the compilation flag has been
\* folded in: the mask fillAlbum stores is (the OR of the bits of the recognised
\* labels) OR (the compilation bit when the compilation flag is set), with the
\* album bit in its place only when that combined mask is zero; an album with no
\* recognised label and the compilation flag gets exactly the compilation bit.
C11_DefaultAfterCompilation ==
    call.fn = "fillAlbum" =>
        LET labelBits == FoldReleaseTypes(call.subAlbum.ReleaseTypes, 0)
            combined  == IF call.subAlbum.IsCompilation
                           THEN BitOr(labelBits, ReleaseTypeCompilation)
                           ELSE labelBits
        IN  /\ call.album.ReleaseTypes =
                  (IF combined = 0 THEN ReleaseTypeAlbum ELSE combined)
            /\ (labelBits = 0 /\ call.subAlbum.IsCompilation)
                  => call.album.ReleaseTypes = ReleaseTypeCompilation

\* C10: CanStreamWithOffset returns true iff the extension query succeeded and
\* the list holds the transcode-offset extension; a failed query yields false,
\* a plain boolean and no error.
C10_StreamOffset ==
    call.fn = "CanStreamWithOffset" =>
        /\ call.ret \in BOOLEAN
        /\ call.ret <=>
              (/\ call.queryErr = NoErr
               /\ \E n \in DOMAIN call.extensions :
                     call.extensions[n].Name = "transcodeOffset")
        /\ call.queryErr # NoErr => call.ret = FALSE

\* the extension query failed and the result is false
C10_Witness ==
    /\ call.fn = "CanStreamWithOffset"
    /\ call.queryErr = TransportErr
    /\ call.extensions = <<>>
    /\ call.ret = FALSE

====
